---- MODULE Spec2Model ----
(***************************************************************************)
(* AV7 Gap Analyzer (src/app.py): the analysis run behind the "Analyze     *)
(* Gaps" button.  Text cells are sequences of one-character strings; an    *)
(* empty cell (pandas NaN) is the empty sequence.  A parsed value that may *)
(* be absent (NaN / NaT / None) is a sequence of length 0 or 1.            *)
(***************************************************************************)
EXTENDS Integers, Sequences, FiniteSets, TLC

VARIABLES
    pc,                     \* position in the "Analyze Gaps" handler
    refuel_read,            \* the refuelling table as read (line 79), kept for reference
    df_refuel,              \* refuelling table, filtered and annotated in place
    df_schedule,            \* schedule table, annotated in place
    slack_minutes,          \* sidebar: time buffer
    series_jump_threshold,  \* sidebar: max AV7 jump
    known_cancelled_av7,    \* sidebar: ignored AV7 numbers (set of integers)
    ignored_flights,        \* sidebar: ignored flights (set of clean ids)
    ignore_prefixes,        \* sidebar: ignored AV7 prefixes (tuple of texts)
    df_refuel_clean,        \* validated, sorted receipts
    missing_flights_df,     \* pool of unmatched scheduled flights
    i,                      \* index of the gap-search loop (0-based, as in the code)
    predictions,            \* findings, in emission order
    display                 \* what the result display shows

vars == <<pc, refuel_read, df_refuel, df_schedule, slack_minutes,
          series_jump_threshold, known_cancelled_av7, ignored_flights,
          ignore_prefixes, df_refuel_clean, missing_flights_df, i,
          predictions, display>>

-----------------------------------------------------------------------------
(* Characters *)

DigitChars == <<"0", "1", "2", "3", "4", "5", "6", "7", "8", "9">>

LowerChars == <<"a", "b", "c", "d", "e", "f", "g", "h", "i", "j", "k", "l", "m",
                "n", "o", "p", "q", "r", "s", "t", "u", "v", "w", "x", "y", "z">>

UpperChars == <<"A", "B", "C", "D", "E", "F", "G", "H", "I", "J", "K", "L", "M",
                "N", "O", "P", "Q", "R", "S", "T", "U", "V", "W", "X", "Y", "Z">>

Range(s) == {s[k] : k \in 1..Len(s)}

IsDigit(c) == c \in Range(DigitChars)

DigitVal(c) == (CHOOSE k \in 1..10 : DigitChars[k] = c) - 1

IsAlnum(c) == IsDigit(c) \/ c \in Range(LowerChars) \/ c \in Range(UpperChars)

ToUpper(c) ==
    IF c \in Range(LowerChars)
    THEN UpperChars[CHOOSE k \in 1..26 : LowerChars[k] = c]
    ELSE c

IsSpace(c) == c = " "

AllDigits(s) == \A k \in 1..Len(s) : IsDigit(s[k])

RECURSIVE NumVal(_)
NumVal(s) ==
    IF s = <<>> THEN 0
    ELSE 10 * NumVal(SubSeq(s, 1, Len(s) - 1)) + DigitVal(s[Len(s)])

StartsWith(s, p) == Len(p) <= Len(s) /\ SubSeq(s, 1, Len(p)) = p

RECURSIVE Strip(_)
Strip(s) ==
    IF s = <<>> THEN s
    ELSE IF IsSpace(s[1]) THEN Strip(Tail(s))
    ELSE IF IsSpace(s[Len(s)]) THEN Strip(SubSeq(s, 1, Len(s) - 1))
    ELSE s

RECURSIVE ZFill(_, _)
ZFill(s, width) == IF Len(s) >= width THEN s ELSE ZFill(<<"0">> \o s, width)

BeforeDot(s) ==
    IF \E k \in 1..Len(s) : s[k] = "."
    THEN SubSeq(s, 1, (CHOOSE k \in 1..Len(s) :
                          s[k] = "." /\ \A j \in 1..(k - 1) : s[j] # ".") - 1)
    ELSE s

Fmt2(n) == <<DigitChars[(n \div 10) + 1], DigitChars[(n % 10) + 1]>>

NaN == <<>>
NaT == <<>>
IsNa(v) == v = <<>>

-----------------------------------------------------------------------------
(* Normalisation helpers of the program *)

clean_flight_number(flight_str) ==
    IF IsNa(flight_str) THEN <<>>
    ELSE LET kept == SelectSeq(flight_str, IsAlnum)
         IN  [k \in 1..Len(kept) |-> ToUpper(kept[k])]

\* pd.to_numeric(..., errors='coerce') on a text cell: <<n>> or NaN
to_numeric(cell) ==
    IF cell # <<>> /\ AllDigits(cell) THEN <<NumVal(cell)>> ELSE NaN

\* the strptime directive %H at position p: the lengths it can take, best first
HourLens(s, p) ==
    LET two == p + 1 <= Len(s) /\ IsDigit(s[p]) /\ IsDigit(s[p + 1])
               /\ NumVal(SubSeq(s, p, p + 1)) <= 23
        one == p <= Len(s) /\ IsDigit(s[p])
    IN  (IF two THEN <<2>> ELSE <<>>) \o (IF one THEN <<1>> ELSE <<>>)

\* the strptime directives %M and %S at position p
MinuteLens(s, p) ==
    LET two == p + 1 <= Len(s) /\ IsDigit(s[p]) /\ IsDigit(s[p + 1])
               /\ NumVal(SubSeq(s, p, p + 1)) <= 59
        one == p <= Len(s) /\ IsDigit(s[p])
    IN  (IF two THEN <<2>> ELSE <<>>) \o (IF one THEN <<1>> ELSE <<>>)

\* strptime(s, '%H%M'): <<<<h, m>>>> or NaT
StrpHM(s) ==
    LET hs == SelectSeq(HourLens(s, 1), LAMBDA h : MinuteLens(s, 1 + h) # <<>>)
    IN  IF hs = <<>> THEN NaT
        ELSE LET h == hs[1]
                 m == MinuteLens(s, 1 + h)[1]
             IN  IF h + m = Len(s)
                 THEN <<<<NumVal(SubSeq(s, 1, h)), NumVal(SubSeq(s, h + 1, h + m))>>>>
                 ELSE NaT

\* strptime(s, '%H:%M'): <<<<h, m>>>> or NaT
StrpHColonM(s) ==
    LET ok(h) == h + 1 <= Len(s) /\ s[h + 1] = ":" /\ MinuteLens(s, h + 2) # <<>>
        hs == SelectSeq(HourLens(s, 1), ok)
    IN  IF hs = <<>> THEN NaT
        ELSE LET h == hs[1]
                 m == MinuteLens(s, h + 2)[1]
             IN  IF h + 1 + m = Len(s)
                 THEN <<<<NumVal(SubSeq(s, 1, h)), NumVal(SubSeq(s, h + 2, h + 1 + m))>>>>
                 ELSE NaT

parse_std(val) ==
    IF IsNa(val) THEN NaT
    ELSE LET s == ZFill(Strip(BeforeDot(val)), 4)
         IN  IF StrpHM(s) # NaT THEN StrpHM(s) ELSE StrpHColonM(s)

\* pd.to_datetime(text, format='%H:%M:%S', errors='coerce'): <<<<h, m, s>>>> or NaT
to_datetime(text) ==
    LET okH(h) == h + 1 <= Len(text) /\ text[h + 1] = ":"
                  /\ \E m \in Range(MinuteLens(text, h + 2)) :
                        /\ h + 2 + m <= Len(text)
                        /\ text[h + 2 + m] = ":"
                        /\ MinuteLens(text, h + 3 + m) # <<>>
        hs == SelectSeq(HourLens(text, 1), okH)
    IN  IF hs = <<>> THEN NaT
        ELSE LET h  == hs[1]
                 okM(m) == h + 2 + m <= Len(text) /\ text[h + 2 + m] = ":"
                           /\ MinuteLens(text, h + 3 + m) # <<>>
                 m  == SelectSeq(MinuteLens(text, h + 2), okM)[1]
                 sc == MinuteLens(text, h + 3 + m)[1]
             IN  IF h + 2 + m + sc = Len(text)
                 THEN <<<<NumVal(SubSeq(text, 1, h)),
                          NumVal(SubSeq(text, h + 2, h + 1 + m)),
                          NumVal(SubSeq(text, h + 3 + m, h + 2 + m + sc))>>>>
                 ELSE NaT

get_minutes(dt) == IF IsNa(dt) THEN <<>> ELSE <<dt[1][1] * 60 + dt[1][2]>>

\* strftime('%H:%M') of a parsed time
strftime(t) == Fmt2(t[1]) \o <<":">> \o Fmt2(t[2])

-----------------------------------------------------------------------------
(* Sidebar configuration (lines 22-55) *)

SlackDefault == 60

\* lines 41-45: items of the "Ignore specific AV7s" box (already split on ',')
ProcessIgnoreAv7(items) ==
    LET clean_item(item) == SelectSeq(item, IsDigit)
    IN  {NumVal(clean_item(items[k])) :
            k \in {j \in 1..Len(items) : clean_item(items[j]) # <<>>}}

\* lines 47-51: items of the "Ignore Flight Numbers" box
ProcessIgnoreFlights(items) ==
    {clean_flight_number(items[k]) :
        k \in {j \in 1..Len(items) : clean_flight_number(items[j]) # <<>>}}

\* lines 53-55: items of the "Ignore Numbers Starting With" box
ProcessIgnorePrefixes(items) ==
    LET stripped == [k \in 1..Len(items) |-> Strip(items[k])]
    IN  SelectSeq(stripped, LAMBDA p : p # <<>>)

-----------------------------------------------------------------------------
(* Inputs of a run *)

MaxReceipts == 4
MaxSchedule == 2

ReceiptRow(av7, flight, time) == [AV7 |-> av7, Flight |-> flight, Refuel_Time |-> time]
ScheduleRow(flight, std) == [Flight |-> flight, STD |-> std]

ReceiptRows ==
    << ReceiptRow(<<"1","0","3">>, <<"A","B","2">>, <<"1","0",":","0","0",":","0","0">>),
       ReceiptRow(<<"1","0","0">>, <<"A","B","1">>, <<"0","9",":","0","0",":","0","0">>),
       ReceiptRow(<<"1","0","x">>, <<"A","B","4">>, <<"0","9",":","0","0",":","0","0">>),
       ReceiptRow(<<"1","0","5">>, <<"A","B","5">>, <<"0","9",":","0","0",":","0","0">>),
       ReceiptRow(<<"1","0","0">>, <<"A","B","2">>, <<"2","3",":","3","0",":","0","0">>),
       ReceiptRow(<<"1","0","2">>, <<"a","b","-","3">>, <<"9","a","m">>) >>

ScheduleRows ==
    << ScheduleRow(<<"A","B","3">>, <<"0","9","3","0">>),
       ScheduleRow(<<"A","B","4">>, <<"1","4","0","0">>),
       ScheduleRow(<<"a","b","-","5">>, <<"0",":","1","0">>),
       ScheduleRow(<<"A","B","6">>, <<"2","4","6","0",".","0">>) >>

\* the selections of at most n rows of the list, as index sequences
Ascending(rows, n) ==
    UNION { {t \in [1..k -> 1..Len(rows)] : \A a, b \in 1..k : a < b => t[a] < t[b]} :
            k \in 0..n }
Descending(rows, n) ==
    UNION { {t \in [1..k -> 1..Len(rows)] : \A a, b \in 1..k : a < b => t[a] > t[b]} :
            k \in 0..n }
AnyOrder(rows, n) ==
    UNION { {t \in [1..k -> 1..Len(rows)] : \A a, b \in 1..k : a # b => t[a] # t[b]} :
            k \in 0..n }

Pick(rows, t) == [k \in 1..Len(t) |-> rows[t[k]]]

\* receipt tables: at most MaxReceipts distinct rows, pasted in list order or reversed
\* (the list is not in id order, so tables arrive sorted and unsorted)
ReceiptTables ==
    {Pick(ReceiptRows, t) : t \in Ascending(ReceiptRows, MaxReceipts)
                                  \cup Descending(ReceiptRows, MaxReceipts)}

\* schedule tables: at most MaxSchedule distinct rows, in any order
ScheduleTables == {Pick(ScheduleRows, t) : t \in AnyOrder(ScheduleRows, MaxSchedule)}

SlackChoices == {30, SlackDefault}
ThresholdChoices == {2, 10}
IgnoreAv7Inputs == { <<>>, << <<" ","1","0","1">> >> }
IgnoreFlightInputs == { <<>>, << <<"a","b","-","3">> >> }
IgnorePrefixInputs == { <<>>, << <<"1","2">>, <<" ","1","0","2">> >> }

-----------------------------------------------------------------------------
(* The run *)

Init ==
    /\ pc = "filter"
    /\ refuel_read \in ReceiptTables
    /\ df_refuel = refuel_read
    /\ df_schedule \in ScheduleTables
    /\ slack_minutes \in SlackChoices
    /\ series_jump_threshold \in ThresholdChoices
    /\ known_cancelled_av7 \in {ProcessIgnoreAv7(x) : x \in IgnoreAv7Inputs}
    /\ ignored_flights \in {ProcessIgnoreFlights(x) : x \in IgnoreFlightInputs}
    /\ ignore_prefixes \in {ProcessIgnorePrefixes(x) : x \in IgnorePrefixInputs}
    /\ df_refuel_clean = <<>>
    /\ missing_flights_df = <<>>
    /\ i = 0
    /\ predictions = <<>>
    /\ display = "none"

\* astype(str) / str() of a cell
AsStr(cell) == IF IsNa(cell) THEN <<"n","a","n">> ELSE cell

\* line 102: .str.startswith(ignore_prefixes, na=False)
HasIgnoredPrefix(av7) ==
    \E k \in 1..Len(ignore_prefixes) : StartsWith(AsStr(av7), ignore_prefixes[k])

\* lines 100-102
FilterPrefixes ==
    /\ pc = "filter"
    /\ df_refuel' = IF ignore_prefixes # <<>>
                    THEN SelectSeq(df_refuel, LAMBDA r : ~HasIgnoredPrefix(r.AV7))
                    ELSE df_refuel
    /\ pc' = "clean"
    /\ UNCHANGED <<refuel_read, df_schedule, slack_minutes, series_jump_threshold,
                   known_cancelled_av7, ignored_flights, ignore_prefixes,
                   df_refuel_clean, missing_flights_df, i, predictions, display>>

\* line 111: dropna(subset=['AV7_Num'])
dropna(rows) == SelectSeq(rows, LAMBDA r : ~IsNa(r.AV7_Num))

\* variant: the rows are left in table order
sort_values_Unsorted(rows) == {rows}

\* line 111: sort_values(by='AV7_Num').reset_index(drop=True); the default sort
\* kind is not stable, so rows with equal AV7_Num may come out in either order
sort_values(rows) ==
    { [k \in 1..Len(rows) |-> rows[p[k]]] : p \in
        {q \in Permutations(1..Len(rows)) :
            \A a, b \in 1..Len(rows) :
                a < b => rows[q[a]].AV7_Num[1] <= rows[q[b]].AV7_Num[1]} }

\* lines 104-127
CleanData ==
    /\ pc = "clean"
    /\ df_refuel' = [k \in 1..Len(df_refuel) |->
            [AV7 |-> df_refuel[k].AV7,
             Flight |-> df_refuel[k].Flight,
             Refuel_Time |-> df_refuel[k].Refuel_Time,
             Flight_Clean |-> clean_flight_number(df_refuel[k].Flight),
             AV7_Num |-> to_numeric(df_refuel[k].AV7)]]
    /\ df_schedule' = [k \in 1..Len(df_schedule) |->
            [Flight |-> df_schedule[k].Flight,
             STD |-> df_schedule[k].STD,
             Flight_Clean |-> clean_flight_number(df_schedule[k].Flight),
             STD_Parsed |-> parse_std(df_schedule[k].STD)]]
    /\ \E sorted \in sort_values(dropna(df_refuel')) :
          df_refuel_clean' = [k \in 1..Len(sorted) |->
              [sorted[k] EXCEPT !.Refuel_Time = to_datetime(AsStr(@))]]
    /\ pc' = "pool"
    /\ UNCHANGED <<refuel_read, slack_minutes, series_jump_threshold,
                   known_cancelled_av7, ignored_flights, ignore_prefixes,
                   missing_flights_df, i, predictions, display>>

\* line 138
recorded_flights_clean == {df_refuel_clean[k].Flight_Clean : k \in 1..Len(df_refuel_clean)}

\* variant: the ignored flights are not taken out of the pool
Unmatched_KeepIgnored(row) == row.Flight_Clean \notin recorded_flights_clean

\* lines 139-142: is this scheduled flight kept in the pool?
Unmatched(row) ==
    /\ row.Flight_Clean \notin recorded_flights_clean
    /\ (ignored_flights # {} => row.Flight_Clean \notin ignored_flights)

\* lines 137-147
BuildPool ==
    /\ pc = "pool"
    /\ LET kept == SelectSeq(df_schedule, Unmatched)
       IN  missing_flights_df' = [k \in 1..Len(kept) |->
               [Flight |-> kept[k].Flight,
                STD |-> kept[k].STD,
                Flight_Clean |-> kept[k].Flight_Clean,
                STD_Parsed |-> kept[k].STD_Parsed,
                STD_Minutes |-> get_minutes(kept[k].STD_Parsed)]]
    /\ predictions' = <<>>
    /\ i' = 0
    /\ pc' = "gaps"
    /\ UNCHANGED <<refuel_read, df_refuel, df_schedule, slack_minutes,
                   series_jump_threshold, known_cancelled_av7, ignored_flights,
                   ignore_prefixes, df_refuel_clean, display>>

-----------------------------------------------------------------------------
(* Gap search (lines 149-199) *)

current_av7 == df_refuel_clean[i + 1].AV7_Num[1]
next_av7 == df_refuel_clean[i + 2].AV7_Num[1]
gap_size == next_av7 - current_av7
t_prev == df_refuel_clean[i + 1].Refuel_Time
t_next == df_refuel_clean[i + 2].Refuel_Time

\* line 158
IsGap(size) == size > 1

\* variant: a jump of exactly the threshold counts as a series jump
IsSeriesJump_Inclusive(size) == size >= series_jump_threshold

\* line 159
IsSeriesJump(size) == size > series_jump_threshold

\* variant: only the first timestamp is checked
TimeMissing_PrevOnly(prev, next) == IsNa(prev)

\* line 166
TimeMissing(prev, next) == IsNa(prev) \/ IsNa(next)

\* comparison of two parsed timestamps of the same day
Seconds(t) == (t[1][1] * 60 + t[1][2]) * 60 + t[1][3]

\* variant: equal timestamps count as swapped
IsSwapped_OrEqual(prev, next) ==
    ~IsNa(prev) /\ ~IsNa(next) /\ Seconds(next) <= Seconds(prev)

\* line 168: t_next < t_prev (a comparison with NaT is False)
IsSwapped(prev, next) == ~IsNa(prev) /\ ~IsNa(next) /\ Seconds(next) < Seconds(prev)

\* lines 168-173
start_time == IF IsSwapped(t_prev, t_next) THEN t_next ELSE t_prev
end_time == IF IsSwapped(t_prev, t_next) THEN t_prev ELSE t_next
logic_note == IF IsSwapped(t_prev, t_next) THEN "Swapped (Reverse)" ELSE "Normal"

\* line 175
StartMins(start) == (start[1] * 60 + start[2]) - slack_minutes

\* line 176
EndMins(end) == (end[1] * 60 + end[2]) + slack_minutes

\* variant: the window start is exclusive
InWindow_StrictStart(row, start_mins, end_mins) ==
    /\ ~IsNa(row.STD_Minutes)
    /\ start_mins < row.STD_Minutes[1]
    /\ row.STD_Minutes[1] <= end_mins

\* lines 181-185
InWindow(row, start_mins, end_mins) ==
    /\ ~IsNa(row.STD_Minutes)
    /\ start_mins <= row.STD_Minutes[1]
    /\ row.STD_Minutes[1] <= end_mins

\* variant: the scheduled time is printed as typed, not as parsed
CandidateText_RawStd(row) ==
    AsStr(row.Flight) \o <<" ", "(">> \o AsStr(row.STD) \o <<")">>

\* line 186
CandidateText(row) ==
    AsStr(row.Flight) \o <<" ", "(">> \o strftime(row.STD_Parsed[1]) \o <<")">>

\* lines 178-186
Candidates(start_mins, end_mins) ==
    LET hit == SelectSeq(missing_flights_df, LAMBDA row : InWindow(row, start_mins, end_mins))
    IN  [k \in 1..Len(hit) |-> CandidateText(hit[k])]

NoFlights ==
    <<"N","o"," ","f","l","i","g","h","t","s"," ","f","o","u","n","d"," ",
      "i","n"," ","w","i","n","d","o","w">>

RECURSIVE Join(_)
Join(texts) ==
    IF Len(texts) = 1 THEN texts[1]
    ELSE texts[1] \o <<",", " ">> \o Join(Tail(texts))

\* line 188
CandidateStr(candidates) == IF candidates # <<>> THEN Join(candidates) ELSE NoFlights

\* variant: the range stops one short
missing_range_Short(current, next) == [k \in 1..(next - current - 2) |-> current + k]

\* line 190
missing_range(current, next) == [k \in 1..(next - current - 1) |-> current + k]

\* variant: the ignored AV7 numbers are not consulted
IsCancelled_Never(missing_num) == FALSE

\* line 192
IsCancelled(missing_num) == missing_num \in known_cancelled_av7

\* lines 190-192: the missing numbers that get a finding
Reported(current, next) ==
    SelectSeq(missing_range(current, next), LAMBDA missing_num : ~IsCancelled(missing_num))

\* lines 193-199
Findings(reported, note, start, end, candidate_str) ==
    [k \in 1..Len(reported) |->
        [Missing_AV7 |-> reported[k],
         Window_Logic |-> note,
         Window_Start |-> strftime(start),
         Window_End |-> strftime(end),
         POTENTIAL_FLIGHTS |-> candidate_str]]

InLoop == pc = "gaps" /\ i < Len(df_refuel_clean) - 1

Skip ==
    /\ i' = i + 1
    /\ UNCHANGED <<pc, refuel_read, df_refuel, df_schedule, slack_minutes,
                   series_jump_threshold, known_cancelled_av7, ignored_flights,
                   ignore_prefixes, df_refuel_clean, missing_flights_df,
                   predictions, display>>

\* lines 152-158: contiguous or duplicate ids
GapNone ==
    /\ InLoop
    /\ ~IsGap(gap_size)
    /\ Skip

\* lines 159-161: series / book boundary
GapSeriesJump ==
    /\ InLoop
    /\ IsGap(gap_size)
    /\ IsSeriesJump(gap_size)
    /\ Skip

\* lines 163-166: a timestamp is missing
GapNoTime ==
    /\ InLoop
    /\ IsGap(gap_size)
    /\ ~IsSeriesJump(gap_size)
    /\ TimeMissing(t_prev, t_next)
    /\ Skip

\* lines 168-199: analysed gap.  strftime of a NaT timestamp (lines 196-197)
\* raises, which aborts the run.
GapAnalyse ==
    /\ InLoop
    /\ IsGap(gap_size)
    /\ ~IsSeriesJump(gap_size)
    /\ ~TimeMissing(t_prev, t_next)
    /\ LET reported == Reported(current_av7, next_av7)
       IN  IF IsNa(start_time) \/ IsNa(end_time)
           THEN /\ pc' = IF reported # <<>> THEN "error" ELSE pc
                /\ i' = IF reported # <<>> THEN i ELSE i + 1
                /\ predictions' = predictions
           ELSE /\ predictions' = predictions \o
                     Findings(reported, logic_note, start_time[1], end_time[1],
                              CandidateStr(Candidates(StartMins(start_time[1]),
                                                      EndMins(end_time[1]))))
                /\ i' = i + 1
                /\ pc' = pc
    /\ UNCHANGED <<refuel_read, df_refuel, df_schedule, slack_minutes,
                   series_jump_threshold, known_cancelled_av7, ignored_flights,
                   ignore_prefixes, df_refuel_clean, missing_flights_df, display>>

\* lines 201-224
ResultDisplay ==
    /\ pc = "gaps"
    /\ ~(i < Len(df_refuel_clean) - 1)
    /\ display' = IF predictions # <<>> THEN "success" ELSE "warning"
    /\ pc' = "done"
    /\ UNCHANGED <<refuel_read, df_refuel, df_schedule, slack_minutes,
                   series_jump_threshold, known_cancelled_av7, ignored_flights,
                   ignore_prefixes, df_refuel_clean, missing_flights_df, i,
                   predictions>>

Next ==
    \/ FilterPrefixes
    \/ CleanData
    \/ BuildPool
    \/ GapNone
    \/ GapSeriesJump
    \/ GapNoTime
    \/ GapAnalyse
    \/ ResultDisplay

Spec == Init /\ [][Next]_vars

-----------------------------------------------------------------------------
(* Properties: vocabulary *)

Searching == pc \in {"gaps", "done"}
Finished == pc = "done"

\* adjacent pairs of the validated sequence, named by the position of their first row
Pairs == 1..(Len(df_refuel_clean) - 1)
IdAt(k) == df_refuel_clean[k].AV7_Num[1]
TimeAt(k) == df_refuel_clean[k].Refuel_Time
GapOf(k) == IdAt(k + 1) - IdAt(k)
HasTimes(k) == TimeAt(k) # NaT /\ TimeAt(k + 1) # NaT
Qualifies(k) == 1 < GapOf(k) /\ GapOf(k) <= series_jump_threshold /\ HasTimes(k)
Between(k) == {m \in IdAt(k)..IdAt(k + 1) : IdAt(k) < m /\ m < IdAt(k + 1)}

FindingIds == 1..Len(predictions)
MissingIds == {predictions[j].Missing_AV7 : j \in FindingIds}
FindingsFor(k) == {j \in FindingIds : predictions[j].Missing_AV7 \in Between(k)}
PairOf(j) == CHOOSE k \in Pairs : predictions[j].Missing_AV7 \in Between(k)

\* timestamps <<h, m, s>> compared as times of day
TimeLess(a, b) ==
    \/ a[1][1] < b[1][1]
    \/ a[1][1] = b[1][1] /\ a[1][2] < b[1][2]
    \/ a[1][1] = b[1][1] /\ a[1][2] = b[1][2] /\ a[1][3] < b[1][3]
Earlier(k) == IF TimeLess(TimeAt(k + 1), TimeAt(k)) THEN TimeAt(k + 1) ELSE TimeAt(k)
Later(k) == IF TimeLess(TimeAt(k + 1), TimeAt(k)) THEN TimeAt(k) ELSE TimeAt(k + 1)
MinuteOfDay(t) == t[1][1] * 60 + t[1][2]

\* minutes of an "HH:MM" text
TextMinutes(text) == NumVal(SubSeq(text, 1, 2)) * 60 + NumVal(SubSeq(text, 4, 5))

\* a scheduled flight is unmatched: not recorded by a validated receipt, not ignored
InPool(row) ==
    /\ \A k \in 1..Len(df_refuel_clean) :
          clean_flight_number(row.Flight) # clean_flight_number(df_refuel_clean[k].Flight)
    /\ clean_flight_number(row.Flight) \notin ignored_flights

-----------------------------------------------------------------------------
(* C1: the end-to-end scenario *)

Text_AB3_0930 == <<"A","B","3"," ","(","0","9",":","3","0",")">>

Scenario ==
    /\ refuel_read =
         << ReceiptRow(<<"1","0","0">>, <<"A","B","1">>, <<"0","9",":","0","0",":","0","0">>),
            ReceiptRow(<<"1","0","3">>, <<"A","B","2">>, <<"1","0",":","0","0",":","0","0">>) >>
    /\ [k \in 1..Len(df_schedule) |-> ScheduleRow(df_schedule[k].Flight, df_schedule[k].STD)] =
         << ScheduleRow(<<"A","B","3">>, <<"0","9","3","0">>),
            ScheduleRow(<<"A","B","4">>, <<"1","4","0","0">>) >>
    /\ slack_minutes = 60
    /\ series_jump_threshold = 10
    /\ known_cancelled_av7 = {}
    /\ ignored_flights = {}
    /\ ignore_prefixes = <<>>

ScenarioFinding(id, from, to) ==
    [Missing_AV7 |-> id, Window_Logic |-> "Normal", Window_Start |-> from,
     Window_End |-> to, POTENTIAL_FLIGHTS |-> Text_AB3_0930]

\* C1 as stated: the scenario yields findings 101 and 102, in that order, each with
\* window_start 08:00 and window_end 11:00, logic Normal and candidates "AB3 (09:30)".
C1_ScenarioAsStated ==
    (Scenario /\ Finished) =>
        predictions = << ScenarioFinding(101, <<"0","8",":","0","0">>, <<"1","1",":","0","0">>),
                         ScenarioFinding(102, <<"0","8",":","0","0">>, <<"1","1",":","0","0">>) >>

\* C1 amended: the scenario yields findings 101 and 102, in that order, each with
\* window_start 09:00 and window_end 10:00 (the two receipt times, without the slack),
\* logic Normal and candidates exactly "AB3 (09:30)".
C1_Scenario ==
    (Scenario /\ Finished) =>
        predictions = << ScenarioFinding(101, <<"0","9",":","0","0">>, <<"1","0",":","0","0">>),
                         ScenarioFinding(102, <<"0","9",":","0","0">>, <<"1","0",":","0","0">>) >>

C1_Witness == Scenario /\ Finished /\ Len(predictions) = 2 /\ display = "success"

-----------------------------------------------------------------------------
(* C2: prefix exclusion *)

\* rows of the table as read whose raw id text starts with an ignored prefix
PrefixedRows ==
    {k \in 1..Len(refuel_read) :
        \E p \in 1..Len(ignore_prefixes) : StartsWith(refuel_read[k].AV7, ignore_prefixes[p])}

\* C2: a receipt whose raw id text starts with an ignored prefix is not in the
\* validated sequence, and its id is never reported as a missing receipt id.
C2_PrefixExclusion ==
    Searching =>
        \A k \in PrefixedRows :
            /\ \A n \in 1..Len(df_refuel_clean) : df_refuel_clean[n].AV7 # refuel_read[k].AV7
            /\ to_numeric(refuel_read[k].AV7) # NaN =>
                  to_numeric(refuel_read[k].AV7)[1] \notin MissingIds

-----------------------------------------------------------------------------
(* C3: exclusion law *)

\* C3: no finding reports an ignored receipt id, also when the id lies inside a
\* qualifying gap; the other missing ids of that gap are still reported.
C3_ExclusionLaw ==
    /\ \A j \in FindingIds : predictions[j].Missing_AV7 \notin known_cancelled_av7
    /\ Finished =>
          \A k \in Pairs :
              (Qualifies(k) /\ Between(k) \cap known_cancelled_av7 # {}) =>
                  Between(k) \ known_cancelled_av7 \subseteq MissingIds

C3_Witness ==
    /\ Finished
    /\ \E k \in Pairs :
          /\ Qualifies(k)
          /\ Between(k) \cap known_cancelled_av7 # {}
          /\ Between(k) \ known_cancelled_av7 # {}
          /\ Between(k) \cap MissingIds = Between(k) \ known_cancelled_av7

-----------------------------------------------------------------------------
(* C4: gap qualification *)

\* C4: a pair with gap > max_gap_size or gap <= 1 gives no finding for any id
\* between its two receipts; a pair whose gap equals max_gap_size is analysed.
C4_GapQualification ==
    Searching =>
        \A k \in Pairs :
            /\ (GapOf(k) > series_jump_threshold \/ GapOf(k) <= 1) => FindingsFor(k) = {}
            /\ (Finished /\ GapOf(k) = series_jump_threshold /\ Qualifies(k)) =>
                  Between(k) \ known_cancelled_av7 \subseteq MissingIds

C4_Witness ==
    /\ Finished
    /\ \E k, n \in Pairs :
          /\ GapOf(k) = series_jump_threshold /\ FindingsFor(k) # {}
          /\ GapOf(n) > series_jump_threshold /\ FindingsFor(n) = {}

-----------------------------------------------------------------------------
(* C5: window correctness *)

\* the candidate texts expected for pair k: the unmatched scheduled flights, in
\* schedule order, whose parsed time lies in [start - slack, end + slack]
ExpectedCandidates(k) ==
    LET lo == MinuteOfDay(Earlier(k)) - slack_minutes
        hi == MinuteOfDay(Later(k)) + slack_minutes
        hit == SelectSeq(df_schedule, LAMBDA row :
                   /\ InPool(row)
                   /\ row.STD_Parsed # NaT
                   /\ lo <= MinuteOfDay(row.STD_Parsed)
                   /\ MinuteOfDay(row.STD_Parsed) <= hi)
    IN  [n \in 1..Len(hit) |-> CandidateText(hit[n])]

\* C5: the candidates of every finding of the report are exactly the unmatched
\* flights, in schedule order, with a parseable time f such that
\* start - slack <= f <= end + slack, the bounds taken as computed (no wraparound,
\* no clamping).
C5_WindowCorrectness ==
    Finished =>
        \A j \in FindingIds :
            predictions[j].POTENTIAL_FLIGHTS = CandidateStr(ExpectedCandidates(PairOf(j)))

\* a finding with a candidate exactly on the window start, a window that runs past
\* midnight, and a pooled flight without a parseable time
C5_Witness ==
    /\ Finished
    /\ \E j \in FindingIds :
          /\ predictions[j].POTENTIAL_FLIGHTS # NoFlights
          /\ MinuteOfDay(Later(PairOf(j))) + slack_minutes >= 1440
          /\ \E n \in 1..Len(missing_flights_df) :
                /\ missing_flights_df[n].STD_Minutes # <<>>
                /\ missing_flights_df[n].STD_Minutes[1] =
                      MinuteOfDay(Earlier(PairOf(j))) - slack_minutes
          /\ \E n \in 1..Len(missing_flights_df) : missing_flights_df[n].STD_Minutes = <<>>

-----------------------------------------------------------------------------
(* C6: swapped-order detection *)

\* the window and the label expected for pair k, from its two timestamps alone
ExpectedLogic(k) ==
    IF TimeLess(TimeAt(k + 1), TimeAt(k)) THEN "Swapped (Reverse)" ELSE "Normal"
ExpectedStart(k) == strftime(Earlier(k)[1])
ExpectedEnd(k) == strftime(Later(k)[1])

\* C6: a finding is labelled swapped exactly when the later-indexed receipt's
\* timestamp is strictly earlier than the former's; its window is the two
\* timestamps in chronological order, so window_start <= window_end.
C6_SwappedOrder ==
    Searching =>
        \A j \in FindingIds :
            /\ predictions[j].Window_Logic = ExpectedLogic(PairOf(j))
            /\ predictions[j].Window_Start = ExpectedStart(PairOf(j))
            /\ predictions[j].Window_End = ExpectedEnd(PairOf(j))
            /\ TextMinutes(predictions[j].Window_Start) <= TextMinutes(predictions[j].Window_End)

\* one report with a swapped gap and a gap in chronological order
C6_Witness ==
    /\ Finished
    /\ \E j, n \in FindingIds :
          /\ predictions[j].Window_Logic = "Swapped (Reverse)"
          /\ TimeLess(TimeAt(PairOf(j) + 1), TimeAt(PairOf(j)))
          /\ TextMinutes(predictions[j].Window_Start) < TextMinutes(predictions[j].Window_End)
          /\ predictions[n].Window_Logic = "Normal"
          /\ TimeLess(TimeAt(PairOf(n)), TimeAt(PairOf(n) + 1))

-----------------------------------------------------------------------------
(* C7: report ordering *)

\* C7: the missing ids of the report are strictly increasing in emission order, and
\* none of them is the id of a validated receipt.
C7_ReportOrdering ==
    /\ \A a, b \in FindingIds :
          a < b => predictions[a].Missing_AV7 < predictions[b].Missing_AV7
    /\ Searching =>
          \A j \in FindingIds : \A n \in 1..Len(df_refuel_clean) :
              predictions[j].Missing_AV7 # IdAt(n)

\* a table pasted out of id order, with a duplicate id, reported over two gaps
C7_Witness ==
    /\ Finished
    /\ \E a, b \in 1..Len(refuel_read) :
          /\ a < b
          /\ to_numeric(refuel_read[a].AV7) # NaN
          /\ to_numeric(refuel_read[b].AV7) # NaN
          /\ to_numeric(refuel_read[a].AV7)[1] > to_numeric(refuel_read[b].AV7)[1]
    /\ \E k \in Pairs : GapOf(k) = 0
    /\ \E k, n \in Pairs : k # n /\ FindingsFor(k) # {} /\ FindingsFor(n) # {}

-----------------------------------------------------------------------------
(* C8: completeness and sharing per gap *)

\* C8: for a qualifying pair, every id strictly between the two receipts that is not
\* ignored has exactly one finding, and the findings of one pair carry the same
\* window, label and candidates.
C8_Completeness ==
    Finished =>
        \A k \in Pairs :
            Qualifies(k) =>
                /\ \A m \in Between(k) \ known_cancelled_av7 :
                      Cardinality({j \in FindingIds : predictions[j].Missing_AV7 = m}) = 1
                /\ \A a, b \in FindingsFor(k) :
                      [predictions[a] EXCEPT !.Missing_AV7 = 0] =
                      [predictions[b] EXCEPT !.Missing_AV7 = 0]

C8_Witness ==
    /\ Finished
    /\ \E k \in Pairs :
          /\ Qualifies(k)
          /\ Cardinality(FindingsFor(k)) >= 2
          /\ Cardinality(FindingsFor(k)) = Cardinality(Between(k) \ known_cancelled_av7)

-----------------------------------------------------------------------------
(* C9: gap-level skip on a missing timestamp *)

NoTimePair(k) ==
    1 < GapOf(k) /\ GapOf(k) <= series_jump_threshold /\ ~HasTimes(k)

C9_NoFinding ==
    /\ pc # "error"
    /\ Searching => \A k \in Pairs : NoTimePair(k) => FindingsFor(k) = {}

C9_SkipStep ==
    (pc = "gaps" /\ i + 1 \in Pairs /\ NoTimePair(i + 1)) =>
        (predictions' = predictions /\ i' = i + 1 /\ pc' = "gaps")

\* C9: a pair within the threshold that lacks a timestamp gives no finding for any id
\* between its receipts; the run does not abort, and the step over that pair leaves
\* the findings of the other gaps as they are.
C9_TimestampSkip == [](C9_NoFinding) /\ [][C9_SkipStep]_vars

\* a finished report with findings, from a table that has such a pair
C9_Witness ==
    /\ Finished
    /\ display = "success"
    /\ \E k, n \in Pairs : NoTimePair(k) /\ FindingsFor(n) # {}

-----------------------------------------------------------------------------
(* C10: unmatched-pool exclusion *)

\* the candidate strings that can be made of unmatched scheduled flights only
PoolStrings ==
    LET free == {n \in 1..Len(df_schedule) :
                    InPool(df_schedule[n]) /\ df_schedule[n].STD_Parsed # NaT}
        chosen(I) == SelectSeq(df_schedule, LAMBDA row :
                         \E n \in I : df_schedule[n] = row)
    IN  {CandidateStr([n \in 1..Len(chosen(I)) |-> CandidateText(chosen(I)[n])]) :
            I \in SUBSET free}

\* the receipts that are validated whatever the flight exclusions are
ExpectedReceipts ==
    {<<refuel_read[k].AV7, refuel_read[k].Flight>> :
        k \in {n \in 1..Len(refuel_read) :
                  n \notin PrefixedRows /\ to_numeric(refuel_read[n].AV7) # NaN}}

\* C10: in the report, no candidate of a finding is a flight recorded by a validated receipt or an
\* ignored flight; the ignored flights decide neither which receipts are validated
\* nor the missing ids, windows and labels of the report.
C10_PoolExclusion ==
    Finished =>
        /\ LET allowed == PoolStrings
           IN  \A j \in FindingIds : predictions[j].POTENTIAL_FLIGHTS \in allowed
        /\ {<<df_refuel_clean[n].AV7, df_refuel_clean[n].Flight>> :
               n \in 1..Len(df_refuel_clean)} = ExpectedReceipts
        /\ MissingIds = UNION {Between(k) \ known_cancelled_av7 :
                                  k \in {n \in Pairs : Qualifies(n)}}
        /\ \A j \in FindingIds :
              <<predictions[j].Window_Start, predictions[j].Window_End,
                predictions[j].Window_Logic>> =
              <<ExpectedStart(PairOf(j)), ExpectedEnd(PairOf(j)), ExpectedLogic(PairOf(j))>>

\* an ignored flight and a recorded flight are both scheduled inside the window of
\* a finding, and neither is among its candidates
C10_Witness ==
    /\ Finished
    /\ \E j \in FindingIds : \E a, b \in 1..Len(df_schedule) :
          LET lo == MinuteOfDay(Earlier(PairOf(j))) - slack_minutes
              hi == MinuteOfDay(Later(PairOf(j))) + slack_minutes
              inside(row) == /\ row.STD_Parsed # NaT
                             /\ lo <= MinuteOfDay(row.STD_Parsed)
                             /\ MinuteOfDay(row.STD_Parsed) <= hi
          IN  /\ inside(df_schedule[a])
              /\ clean_flight_number(df_schedule[a].Flight) \in ignored_flights
              /\ inside(df_schedule[b])
              /\ \E n \in 1..Len(df_refuel_clean) :
                    clean_flight_number(df_refuel_clean[n].Flight) =
                    clean_flight_number(df_schedule[b].Flight)
              /\ predictions[j].POTENTIAL_FLIGHTS = NoFlights

====
